---------------------------- MODULE Spec2Model ----------------------------
(***************************************************************************)
(* A model of vawk (src/vawk.py): an awk-like VCF preprocessor.  The       *)
(* program splits the user's script into BEGIN / per-line / END parts,     *)
(* finds the I$KEY and S$NAME[$FIELD] references of the per-line part,     *)
(* generates awk text that binds a variable to each, runs gawk on it and   *)
(* copies gawk's output.                                                   *)
(*                                                                         *)
(* Text is a sequence of one-character strings.  The fixed pieces of awk   *)
(* text the program concatenates are kept as single multi-character        *)
(* elements, written as in the source; none of them contains "I$" or "S$", *)
(* nor starts with "$", so no pattern of the program matches inside one.   *)
(* Indices are Python's (0-based) and converted where a sequence is read.  *)
(*                                                                         *)
(* Three specifications share the definitions:                             *)
(*   SpecParse  parse() alone, on bounded script strings;                  *)
(*   Spec       vawk()/main(): code generation, spawn, read loop, exit;    *)
(*   SpecAwk    the generated per-line program, run by the engine on       *)
(*              input lines.                                               *)
(***************************************************************************)
EXTENDS Integers, Sequences, FiniteSets, TLC

VARIABLES
    pc,             \* position of the program (or of the engine in SpecAwk)
    \* ---- parse(raw)
    raw, begin, perline, end, op_brace, a, b, begin_idx, end_idx,
    \* ---- vawk(debug, header, var, info_col, vawk_string, vcf_file)
    vawk_string, header, info_col, info_keys, samples_raw, sample_queries,
    \* ---- the process: child engine, exit
    child, child_status, pending, printed, exit_status, report, cmd,
    \* ---- the engine's globals while it runs the generated program
    SAMPLE, fmt, fmt_key, samp, gvars, rec, out, body_ran

parse_vars == <<raw, begin, perline, end, op_brace, a, b, begin_idx, end_idx>>
vawk_vars  == <<vawk_string, header, info_col, info_keys, samples_raw, sample_queries>>
proc_vars  == <<child, child_status, pending, printed, exit_status, report, cmd>>
awk_vars   == <<SAMPLE, fmt, fmt_key, samp, gvars, rec, out, body_ran>>
vars == <<pc, parse_vars, vawk_vars, proc_vars, awk_vars>>

(***************************************************************************)
(* Text helpers (Python str operations).                                   *)
(***************************************************************************)
BEGIN_kw == <<"B", "E", "G", "I", "N">>
END_kw   == <<"E", "N", "D">>

\* \s of the re module, and what str.strip() removes
IsSpace(c) == c \in {" ", "\t", "\n"}

\* s[lo:hi] of Python, 0 <= lo
Slice(s, lo, hi) ==
    LET h == IF hi > Len(s) THEN Len(s) ELSE hi
    IN  IF lo >= h THEN <<>> ELSE SubSeq(s, lo + 1, h)

\* s[lo:]
SliceFrom(s, lo) == Slice(s, lo, Len(s))

\* s[1:-1]
Inner(s) == IF Len(s) < 2 THEN <<>> ELSE SubSeq(s, 2, Len(s) - 1)

RECURSIVE LStrip(_)
LStrip(s) == IF s /= <<>> /\ IsSpace(Head(s)) THEN LStrip(Tail(s)) ELSE s

RECURSIVE RStrip(_)
RStrip(s) ==
    IF s /= <<>> /\ IsSpace(s[Len(s)]) THEN RStrip(SubSeq(s, 1, Len(s) - 1)) ELSE s

\* str.strip()
Strip(s) == RStrip(LStrip(s))

\* s.startswith(p) at 0-based position i
HasAt(s, p, i) ==
    /\ i >= 0
    /\ i + Len(p) <= Len(s)
    /\ \A k \in 1..Len(p) : s[i + k] = p[k]

(***************************************************************************)
(* parse(raw): the BEGIN, per-line and END portions of the script.         *)
(***************************************************************************)
\* the first position from i on that holds no white space
RECURSIVE SkipSpace(_, _)
SkipSpace(s, i) ==
    IF i < Len(s) /\ IsSpace(s[i + 1]) THEN SkipSpace(s, i + 1) ELSE i

\* kw\s*{ matches at i
OpenerAt(s, kw, i) ==
    /\ HasAt(s, kw, i)
    /\ LET k == SkipSpace(s, i + Len(kw)) IN k < Len(s) /\ s[k + 1] = "{"

\* re.search(kw\s*{, s): the start of the leftmost match, -1 for None
SearchOpener(s, kw) ==
    LET hits == {i \in 0..(Len(s) - 1) : OpenerAt(s, kw, i)}
    IN  IF hits = {} THEN -1 ELSE CHOOSE i \in hits : \A j \in hits : i <= j

\* ScanBlock with the nesting count dropped: closes at the first "}"
RECURSIVE ScanBlock_FirstClose(_, _, _)
ScanBlock_FirstClose(s, i, n) ==
    IF i >= Len(s) THEN [closed |-> FALSE, b |-> i, op_brace |-> n]
    ELSE IF s[i + 1] = "}" THEN [closed |-> TRUE, b |-> i, op_brace |-> 0]
    ELSE ScanBlock_FirstClose(s, i + 1, n)

\* The while loop of parse: from index i with count n, the index of the "}"
\* that brings the count to zero, or closed = FALSE with b = len(s), where
\* s[b] raises IndexError.
RECURSIVE ScanBlock(_, _, _)
ScanBlock(s, i, n) ==
    IF i >= Len(s) THEN [closed |-> FALSE, b |-> i, op_brace |-> n]
    ELSE IF s[i + 1] = "{" THEN ScanBlock(s, i + 1, n + 1)
    ELSE IF s[i + 1] = "}" THEN
        IF n - 1 = 0 THEN [closed |-> TRUE, b |-> i, op_brace |-> 0]
        ELSE ScanBlock(s, i + 1, n - 1)
    ELSE ScanBlock(s, i + 1, n)

\* perline of parse, from what is left of raw
PerlineOf(rest) ==
    LET p == Strip(rest)
    IN  IF p /= <<>> /\ p[1] = "{" /\ p[Len(p)] = "}"
        THEN Inner(p)
        ELSE <<"if (">> \o p \o <<") print ; ">>

\* parse's locals at entry (lines 93-100)
ParseEntry(r) ==
    [raw |-> r, begin |-> <<>>, perline |-> <<>>, end |-> <<>>, op_brace |-> 0,
     a |-> 0, b |-> 0, begin_idx |-> <<0, -1>>, end_idx |-> <<0, -1>>, err |-> FALSE]

\* raw[:idx[0]] + raw[idx[1] + 1:]
CutSpan(s, idx) == Slice(s, 0, idx[1]) \o SliceFrom(s, idx[2] + 1)

\* "get BEGIN script": a search that finds nothing raises AttributeError, which
\* is passed over; an index past the end raises IndexError, which is not caught.
GetBeginOf(p) ==
    LET i == SearchOpener(p.raw, BEGIN_kw)
        sc == ScanBlock(p.raw, i + 5, p.op_brace)
    IN  IF i = -1 THEN [p EXCEPT !.raw = CutSpan(p.raw, p.begin_idx)]
        ELSE IF sc.closed THEN
            [p EXCEPT !.begin = Inner(Strip(Slice(p.raw, i + 5, sc.b + 1))),
                      !.a = i + 5, !.b = sc.b, !.op_brace = sc.op_brace,
                      !.begin_idx = <<i, sc.b>>,
                      !.raw = CutSpan(p.raw, <<i, sc.b>>)]
        ELSE [p EXCEPT !.a = i + 5, !.b = sc.b, !.op_brace = sc.op_brace,
                       !.begin_idx = <<i, -1>>, !.err = TRUE]

\* "get END script"
GetEndOf(p) ==
    LET i == SearchOpener(p.raw, END_kw)
        sc == ScanBlock(p.raw, i + 3, p.op_brace)
    IN  IF i = -1 THEN [p EXCEPT !.raw = CutSpan(p.raw, p.end_idx)]
        ELSE IF sc.closed THEN
            [p EXCEPT !.end = Inner(Strip(Slice(p.raw, i + 3, sc.b + 1))),
                      !.a = i + 3, !.b = sc.b, !.op_brace = sc.op_brace,
                      !.end_idx = <<i, sc.b>>,
                      !.raw = CutSpan(p.raw, <<i, sc.b>>)]
        ELSE [p EXCEPT !.a = i + 3, !.b = sc.b, !.op_brace = sc.op_brace,
                       !.end_idx = <<i, -1>>, !.err = TRUE]

\* "get PER-LINE script (remainder of string)"
GetPerlineOf(p) == [p EXCEPT !.perline = PerlineOf(p.raw)]

\* parse(raw) as a whole: err = TRUE when it ends in IndexError
parse(r) ==
    LET p1 == GetBeginOf(ParseEntry(r))
        p2 == GetEndOf(p1)
    IN  IF p1.err THEN p1 ELSE IF p2.err THEN p2 ELSE GetPerlineOf(p2)

(***************************************************************************)
(* SpecParse: parse() on every script of at most MaxPieces pieces.         *)
(***************************************************************************)
MaxPieces == 5

ParsePieces ==
    {BEGIN_kw, END_kw \o <<"{">>, <<"{">>, <<"}">>, <<" ">>, <<"x">>}

RECURSIVE Concats(_, _)
Concats(pieces, n) ==
    IF n = 0 THEN {<<>>}
    ELSE LET shorter == Concats(pieces, n - 1)
         IN  shorter \cup {s \o p : s \in shorter, p \in pieces}

\* longer scripts with all three parts: END first, nested braces, a bare condition
ParseScripts ==
    LET B == BEGIN_kw
        E == END_kw
        o == <<"{">>
        c == <<"}">>
        x == <<"x">>
        sp == <<" ">>
    IN  { B \o o \o x \o c \o o \o x \o c \o E \o o \o x \o c,
          E \o sp \o o \o x \o o \o x \o c \o c \o sp \o B \o sp \o o \o sp \o o \o x \o c \o sp \o c \o sp \o x,
          B \o sp \o o \o x \o o \o x \o c \o x \o c \o sp \o o \o sp \o x \o o \o x \o c \o sp \o c \o sp \o E \o o \o sp \o x \o sp \o c,
          B \o o \o o \o c \o c \o E \o o \o o \o c }

ParseInputs == Concats(ParsePieces, MaxPieces) \cup ParseScripts

\* the variables a specification does not use
NoParse ==
    /\ raw = <<>> /\ op_brace = 0 /\ a = 0 /\ b = 0
    /\ begin_idx = <<0, -1>> /\ end_idx = <<0, -1>>
NoVawk ==
    /\ header = FALSE /\ info_col = 0 /\ info_keys = {} /\ samples_raw = {}
    /\ sample_queries = <<>>
NoProc ==
    /\ child = "none" /\ child_status = 0 /\ pending = 0 /\ printed = 0
    /\ exit_status = -1 /\ report = "none" /\ cmd = <<>>
NoAwk ==
    /\ SAMPLE = <<>> /\ fmt = <<>> /\ fmt_key = 0 /\ samp = <<>>
    /\ gvars = <<>> /\ rec = <<>> /\ out = <<>> /\ body_ran = FALSE

\* the record of parse's locals, from the variables and back
ParseState ==
    [raw |-> raw, begin |-> begin, perline |-> perline, end |-> end,
     op_brace |-> op_brace, a |-> a, b |-> b, begin_idx |-> begin_idx,
     end_idx |-> end_idx, err |-> FALSE]

SetParseState(p) ==
    /\ raw' = p.raw /\ begin' = p.begin /\ perline' = p.perline /\ end' = p.end
    /\ op_brace' = p.op_brace /\ a' = p.a /\ b' = p.b
    /\ begin_idx' = p.begin_idx /\ end_idx' = p.end_idx

InitParse ==
    /\ vawk_string \in ParseInputs
    /\ raw = vawk_string
    /\ begin = <<>> /\ perline = <<>> /\ end = <<>>
    /\ op_brace = 0 /\ a = 0 /\ b = 0
    /\ begin_idx = <<0, -1>> /\ end_idx = <<0, -1>>
    /\ pc = "get_begin"
    /\ NoVawk /\ NoProc /\ NoAwk

GetBegin ==
    /\ pc = "get_begin"
    /\ LET p == GetBeginOf(ParseState)
       IN  /\ SetParseState(p)
           /\ pc' = IF p.err THEN "IndexError" ELSE "get_end"
    /\ UNCHANGED <<vawk_vars, proc_vars, awk_vars>>

GetEnd ==
    /\ pc = "get_end"
    /\ LET p == GetEndOf(ParseState)
       IN  /\ SetParseState(p)
           /\ pc' = IF p.err THEN "IndexError" ELSE "get_perline"
    /\ UNCHANGED <<vawk_vars, proc_vars, awk_vars>>

GetPerline ==
    /\ pc = "get_perline"
    /\ SetParseState(GetPerlineOf(ParseState))
    /\ pc' = "return"
    /\ UNCHANGED <<vawk_vars, proc_vars, awk_vars>>

NextParse == GetBegin \/ GetEnd \/ GetPerline

SpecParse == InitParse /\ [][NextParse]_vars

(***************************************************************************)
(* What parse is to return, stated on positions (1-based) rather than by   *)
(* a scan.                                                                 *)
(***************************************************************************)
MinOf(S) == CHOOSE x \in S : \A y \in S : x <= y
MaxOf(S) == CHOOSE x \in S : \A y \in S : x >= y

\* opens minus closes in s[k..j]
Depth(s, k, j) ==
    Cardinality({m \in k..j : s[m] = "{"}) - Cardinality({m \in k..j : s[m] = "}"})

\* <<i, k>>: kw starts at i, only white space follows up to the "{" at k
Openers(s, kw) ==
    {ik \in (1..Len(s)) \X (1..Len(s)) :
        /\ ik[1] + Len(kw) <= ik[2]
        /\ SubSeq(s, ik[1], ik[1] + Len(kw) - 1) = kw
        /\ \A m \in (ik[1] + Len(kw))..(ik[2] - 1) : IsSpace(s[m])
        /\ s[ik[2]] = "{"}

\* the first block of kw: its start i, its "{" at k, its closing "}" at j
BlockSpan(s, kw) ==
    LET ops == Openers(s, kw)
        ik  == CHOOSE o \in ops : \A o2 \in ops : o[1] <= o2[1]
        cl  == {j \in ik[2]..Len(s) : Depth(s, ik[2], j) = 0}
    IN  IF ops = {} THEN [found |-> FALSE, closed |-> TRUE, i |-> 0, k |-> 0, j |-> 0]
        ELSE IF cl = {} THEN [found |-> TRUE, closed |-> FALSE, i |-> ik[1], k |-> ik[2], j |-> 0]
        ELSE [found |-> TRUE, closed |-> TRUE, i |-> ik[1], k |-> ik[2], j |-> MinOf(cl)]

BlockText(s, sp) == IF sp.found THEN SubSeq(s, sp.k + 1, sp.j - 1) ELSE <<>>
WithoutBlock(s, sp) ==
    IF sp.found THEN SubSeq(s, 1, sp.i - 1) \o SubSeq(s, sp.j + 1, Len(s)) ELSE s

Trimmed(s) ==
    LET ns == {m \in 1..Len(s) : ~IsSpace(s[m])}
    IN  IF ns = {} THEN <<>> ELSE SubSeq(s, MinOf(ns), MaxOf(ns))

\* both blocks, where present, close
Balanced(s) ==
    LET sb == BlockSpan(s, BEGIN_kw)
    IN  /\ sb.closed
        /\ BlockSpan(WithoutBlock(s, sb), END_kw).closed

ExpectedBegin(s) == BlockText(s, BlockSpan(s, BEGIN_kw))
ExpectedEnd(s) ==
    LET s2 == WithoutBlock(s, BlockSpan(s, BEGIN_kw))
    IN  BlockText(s2, BlockSpan(s2, END_kw))
ExpectedPerline(s) ==
    LET s2 == WithoutBlock(s, BlockSpan(s, BEGIN_kw))
        r  == Trimmed(WithoutBlock(s2, BlockSpan(s2, END_kw)))
    IN  IF Len(r) >= 2 /\ r[1] = "{" /\ r[Len(r)] = "}"
        THEN SubSeq(r, 2, Len(r) - 1)
        ELSE <<"if (">> \o r \o <<") print ; ">>

ParseEnded == pc \in {"return", "IndexError", "UnbalancedBlock"}

(***************************************************************************)
(* C5: a BEGIN or END block that never closes makes parse stop inside the  *)
(* string and fail with an UnbalancedBlock error: the scan index b never   *)
(* passes the last character (index len(raw) - 1).                         *)
(***************************************************************************)
C5_UnbalancedBlockReported ==
    (ParseEnded /\ ~Balanced(vawk_string)) =>
        (pc = "UnbalancedBlock" /\ b <= Len(raw) - 1)

(***************************************************************************)
(* C6: on a script whose BEGIN and END blocks close, parse returns, and    *)
(* returns begin = the text inside the outer braces of the first BEGIN     *)
(* block, end = the same for the END block of what is left, perline = the  *)
(* trimmed rest, without its outer braces or wrapped as a condition.       *)
(***************************************************************************)
C6_ParseSegments ==
    /\ Balanced(vawk_string) => pc /= "IndexError"
    /\ pc = "return" =>
        /\ Balanced(vawk_string)
        /\ begin = ExpectedBegin(vawk_string)
        /\ end = ExpectedEnd(vawk_string)
        /\ perline = ExpectedPerline(vawk_string)

\* both blocks found, END before BEGIN, braces nested inside BEGIN
C6_Witness ==
    /\ pc = "return"
    /\ begin_idx[2] >= 0 /\ end_idx[2] >= 0
    /\ end_idx[1] < begin_idx[1]
    /\ \E m \in 1..Len(begin) : begin[m] = "{"

(***************************************************************************)
(* vawk(): the patterns and string operations of code generation.          *)
(***************************************************************************)
\* \w of the re module (ASCII)
WordChars ==
    {"a", "b", "c", "d", "e", "f", "g", "h", "i", "j", "k", "l", "m", "n", "o", "p",
     "q", "r", "s", "t", "u", "v", "w", "x", "y", "z", "A", "B", "C", "D", "E", "F",
     "G", "H", "I", "J", "K", "L", "M", "N", "O", "P", "Q", "R", "S", "T", "U", "V",
     "W", "X", "Y", "Z", "0", "1", "2", "3", "4", "5", "6", "7", "8", "9", "_"}

\* [a-zA-Z0-9_\-\.*^$], the characters of a sample reference (line 241)
SampleChars == WordChars \cup {"-", ".", "*", "^", "$"}

\* look_ahead = (?![$_\-\.a-zA-Z0-9]) (line 322)
LookAheadChars == WordChars \cup {"$", "-", "."}

INFO_       == <<"I", "N", "F", "O", "_">>
SAMPLE_     == <<"S", "A", "M", "P", "L", "E", "_">>
ALLSAMPLES_ == <<"A", "L", "L", "S", "A", "M", "P", "L", "E", "S", "_">>
ALL         == <<"A", "L", "L">>
Digits      == <<"0", "1", "2", "3", "4", "5", "6", "7", "8", "9">>

\* str(n)
RECURSIVE IntStr(_)
IntStr(n) ==
    IF n < 10 THEN <<Digits[n + 1]>>
    ELSE IntStr(n \div 10) \o <<Digits[(n % 10) + 1]>>

\* the end (exclusive, 1-based) of the run of characters of cls that starts at i
RECURSIVE RunEnd(_, _, _)
RunEnd(t, i, cls) ==
    IF i <= Len(t) /\ t[i] \in cls THEN RunEnd(t, i + 1, cls) ELSE i

\* re.findall(r"[\W]" sigil "\$(cls*)", t) from position i on: the groups of
\* the non-overlapping matches, left to right.  The match needs one character
\* that is not a word character before the sigil.
RECURSIVE FindRefs(_, _, _, _)
FindRefs(t, i, sigil, cls) ==
    LET hits == {j \in i..(Len(t) - 2) :
                    t[j] \notin WordChars /\ t[j + 1] = sigil /\ t[j + 2] = "$"}
        j    == CHOOSE x \in hits : \A y \in hits : x <= y
        e    == RunEnd(t, j + 3, cls)
    IN  IF hits = {} THEN {}
        ELSE {SubSeq(t, j + 3, e - 1)} \cup FindRefs(t, e, sigil, cls)

\* re.search(sigil "\$", t)
HasSigil(t, sigil) == \E i \in 1..(Len(t) - 1) : t[i] = sigil /\ t[i + 1] = "$"

\* re.sub(pat la, repl, t) from position i on, for a pattern pat without
\* metacharacters followed by the negative look-ahead for the class la
RECURSIVE SubFrom(_, _, _, _, _)
SubFrom(t, i, pat, la, repl) ==
    LET n    == Len(pat)
        hits == {j \in i..(Len(t) - n + 1) :
                    /\ SubSeq(t, j, j + n - 1) = pat
                    /\ (j + n > Len(t) \/ t[j + n] \notin la)}
        j    == CHOOSE x \in hits : \A y \in hits : x <= y
    IN  IF hits = {} THEN SubSeq(t, i, Len(t))
        ELSE SubSeq(t, i, j - 1) \o repl \o SubFrom(t, j + n, pat, la, repl)

ReSub(pat, la, repl, t) == SubFrom(t, 1, pat, la, repl)

\* s.split(sep) of Python: the pieces between separators, empty ones kept
RECURSIVE PySplit(_, _)
PySplit(s, sep) ==
    LET hits == {i \in 1..Len(s) : s[i] = sep}
        i    == CHOOSE x \in hits : \A y \in hits : x <= y
    IN  IF hits = {} THEN <<s>>
        ELSE <<SubSeq(s, 1, i - 1)>> \o PySplit(SubSeq(s, i + 1, Len(s)), sep)

\* s.replace(old, new) for a one-character old
RECURSIVE StrReplace(_, _, _)
StrReplace(s, old, new) ==
    IF s = <<>> THEN <<>>
    ELSE (IF Head(s) = old THEN new ELSE <<Head(s)>>) \o StrReplace(Tail(s), old, new)

\* the text a pattern built from an escaped name matches: "\-" is "-", "\." is "."
RECURSIVE Unescaped(_)
Unescaped(e) ==
    IF e = <<>> THEN <<>>
    ELSE IF Head(e) = "\\" /\ Len(e) >= 2 THEN <<e[2]>> \o Unescaped(SubSeq(e, 3, Len(e)))
    ELSE <<Head(e)>> \o Unescaped(Tail(e))

(***************************************************************************)
(* class Sample                                                            *)
(***************************************************************************)
\* Sample.__init__(s): more than two tokens print the error and exit(1)
SampleInit(s) ==
    LET s_tok == PySplit(s, "$")
    IN  [string_raw |-> s, name_raw |-> s_tok[1],
         name_clean |-> <<>>, name_escaped |-> <<>>,
         field |-> IF Len(s_tok) = 1 THEN ALL
                   ELSE IF Len(s_tok) = 2 THEN s_tok[2] ELSE <<>>,
         error |-> Len(s_tok) > 2]

\* Sample.clean(): gremlin_list = ("-", ".")
SampleClean(o) ==
    [o EXCEPT
        !.name_clean = StrReplace(StrReplace(o.name_raw, "-", <<"_">>), ".", <<"_">>),
        !.name_escaped =
            StrReplace(StrReplace(o.name_raw, "-", <<"\\", "-">>), ".", <<"\\", ".">>)]

\* "_".join([s_obj.name_clean, s_obj.field])
JoinNameField(o) == o.name_clean \o <<"_">> \o o.field

\* the generated variable a query is bound to and renamed to
VarName(o) ==
    IF o.name_clean = <<"*">> THEN ALLSAMPLES_ \o o.field
    ELSE SAMPLE_ \o JoinNameField(o)

InfoVar(mykey) == INFO_ \o mykey

(***************************************************************************)
(* vawk(): the generated text.                                             *)
(***************************************************************************)
DefaultInfoCol == 8

\* " ".join(list)
RECURSIVE JoinSpace(_)
JoinSpace(l) ==
    IF l = <<>> THEN <<>>
    ELSE IF Len(l) = 1 THEN l[1]
    ELSE l[1] \o <<" ">> \o JoinSpace(Tail(l))

\* one element of the list comprehension of lines 219-230
InfoSnippet(mykey) ==
    <<"if (x[i]~\"^">> \o mykey \o <<"=\" || x[i]==\"">> \o mykey
    \o <<"\") { split(x[i],info,\"=\"); if (length(info)==1) { ">>
    \o INFO_ \o mykey \o <<"=1} else {">> \o INFO_ \o mykey \o <<"=info[2]} }">>

\* lines 214-234: the INFO prologue put before perline
InfoPrologue(col, keys) ==
    <<"split($">> \o IntStr(col) \o <<",x,\";\"); for (i=1;i<=length(x);++i) { ">>
    \o JoinSpace([k \in 1..Len(keys) |-> InfoSnippet(keys[k])])
    \o <<"} ">>

\* lines 236-237: every "I$" mykey becomes "INFO_" mykey, key after key
RECURSIVE ReplaceInfoKeys(_, _)
ReplaceInfoKeys(t, keys) ==
    IF keys = <<>> THEN t
    ELSE ReplaceInfoKeys(ReSub(<<"I", "$">> \o Head(keys), {}, InfoVar(Head(keys)), t),
                         Tail(keys))

\* lines 210-237
WithInfo(t, col, keys) ==
    IF HasSigil(t, "I") THEN ReplaceInfoKeys(InfoPrologue(col, keys) \o t, keys)
    ELSE t

\* lines 258-319: the prologue of one query
SamplePrologue(o, start_col) ==
    IF o.field = ALL THEN
        IF o.name_clean = <<"*">> THEN
            ALLSAMPLES_ \o o.field \o <<"=\"\"; for (COL=">> \o IntStr(start_col)
            \o <<";COL<=NF-1;++COL) { ">> \o ALLSAMPLES_ \o o.field \o <<"=">>
            \o ALLSAMPLES_ \o o.field \o <<"\"\"$COL\"\\t\" }; ">>
            \o ALLSAMPLES_ \o o.field \o <<"=">> \o ALLSAMPLES_ \o o.field
            \o <<"\"\"$NF; ">>
        ELSE
            SAMPLE_ \o JoinNameField(o) \o <<"=$SAMPLE[\"">> \o o.name_raw \o <<"\"]; ">>
    ELSE
        IF o.name_clean = <<"*">> THEN
            ALLSAMPLES_ \o o.field
            \o <<"=\"\"; for(i=1;i<=length(fmt);++i) { if (fmt[i]==\"">> \o o.field
            \o <<"\") { fmt_key=i; break } }; for (COL=">> \o IntStr(start_col)
            \o <<";COL<=NF-1;++COL) { split($COL,samp,\":\"); ">>
            \o ALLSAMPLES_ \o o.field \o <<"=">> \o ALLSAMPLES_ \o o.field
            \o <<"\"\"samp[fmt_key]\"\\t\" }; split($NF,samp,\":\"); ">>
            \o ALLSAMPLES_ \o o.field \o <<"=">> \o ALLSAMPLES_ \o o.field
            \o <<"\"\"samp[fmt_key]; ">>
        ELSE
            <<"split($SAMPLE[\"">> \o o.name_raw
            \o <<"\"],samp,\":\"); for(i=1;i<=length(fmt);++i) { if (fmt[i]==\"">>
            \o o.field \o <<"\") { ">> \o SAMPLE_ \o JoinNameField(o)
            \o <<"=samp[i]; break } } ">>

\* lines 256-319: each query's prologue goes before what is there
RECURSIVE WithSamplePrologues(_, _, _)
WithSamplePrologues(t, qs, start_col) ==
    IF qs = <<>> THEN t
    ELSE WithSamplePrologues(SamplePrologue(Head(qs), start_col) \o t, Tail(qs), start_col)

\* lines 325-351: the pattern of one query, without its look-ahead
RenamePattern(o) ==
    IF o.field = ALL THEN
        IF o.name_clean = <<"*">> THEN <<"S", "$", "*">>
        ELSE <<"S", "$">> \o Unescaped(o.name_escaped)
    ELSE
        IF o.name_clean = <<"*">> THEN <<"S", "$", "*", "$">> \o o.field
        ELSE <<"S", "$">> \o Unescaped(o.name_escaped) \o <<"$">> \o o.field

RECURSIVE RenameQueries(_, _)
RenameQueries(t, qs) ==
    IF qs = <<>> THEN t
    ELSE RenameQueries(ReSub(RenamePattern(Head(qs)), LookAheadChars, VarName(Head(qs)), t),
                       Tail(qs))

\* lines 321-351
Renamed(t, qs) == IF HasSigil(t, "S") THEN RenameQueries(t, qs) ELSE t

\* lines 354-355
RECURSIVE WithInfoResets(_, _)
WithInfoResets(t, keys) ==
    IF keys = <<>> THEN t
    ELSE WithInfoResets(InfoVar(Head(keys)) \o <<"=\"\"; ">> \o t, Tail(keys))

\* lines 356-363
RECURSIVE WithSampleResets(_, _)
WithSampleResets(t, qs) ==
    IF qs = <<>> THEN t
    ELSE WithSampleResets(
            IF Head(qs).name_clean /= <<"*">>
            THEN SAMPLE_ \o JoinNameField(Head(qs)) \o <<"=\"\"; ">> \o t
            ELSE t,
            Tail(qs))

\* line 366
WithFmtSplit(t, format_col) ==
    <<"split($">> \o IntStr(format_col) \o <<",fmt,\":\"); ">> \o t

\* lines 369-384
WithHeaderDispatch(t, hdr, start_col) ==
    <<"if ($0~\"^#\") {if ($0!~\"^##\") { for (i=">> \o IntStr(start_col)
    \o (IF hdr THEN <<";i<=NF;++i) SAMPLE[$i]=i; }; print} else {">>
        ELSE <<";i<=NF;++i) SAMPLE[$i]=i; }; next} else {">>)
    \o t \o <<"}">>

\* lines 353-384
Assembled(t, keys, qs, hdr, col) ==
    WithHeaderDispatch(
        WithFmtSplit(WithSampleResets(WithInfoResets(t, keys), qs), col + 1),
        hdr, col + 2)

\* lines 386-396
Program(bg, t, en) ==
    <<"BEGIN {FS=\"\\t\"; OFS=\"\\t\"; ">> \o bg \o <<"}", " {">> \o t
    \o <<"} ", "END {">> \o en \o <<"}">>

\* a set's elements in each order a loop over the set can take
Orders(S) ==
    {f \in [1..Cardinality(S) -> S] : \A i, j \in 1..Cardinality(S) : f[i] = f[j] => i = j}

(***************************************************************************)
(* Spec: main() and vawk() on scripts of at most MaxBody tokens, then the  *)
(* child engine and the read loop.  var = [] and debug = False.            *)
(***************************************************************************)
MaxBody == 4
MaxLines == 1

\* The tokens per-line text is made of.  "-" is the one character of them that
\* Sample.clean escapes, and "*" stands only as a whole name, so every pattern
\* the program builds from them matches as plain text.
MainTokens ==
    { <<" ">>,
      <<"x">>,
      <<"I", "$", "A">>,
      <<"S", "$", "N">>,
      <<"S", "$", "N", "-", "1">>,
      <<"S", "$", "N", "_", "1">>,
      <<"$", "G">>,
      <<" ", "S", "$", "*", " ">>,
      <<" ", "S", "$", "*", "$", "G", " ">> }

MainBodies == Concats(MainTokens, MaxBody)

MainInputs ==
    {<<"{">> \o t \o <<"}">> : t \in MainBodies}
    \cup Concats(MainTokens, MaxBody - 2)
    \cup { BEGIN_kw \o <<"{">>,
           BEGIN_kw \o <<"{", "x", "}", "{", " ">> \o <<"I", "$", "A">> \o <<"}">> \o END_kw \o <<"{", "x", "}">> }

\* the statuses the engine can end with
ChildStatuses == {0, 1, 2}

Init ==
    /\ vawk_string \in MainInputs
    /\ header \in BOOLEAN
    /\ info_col = DefaultInfoCol
    /\ info_keys = <<>> /\ samples_raw = {} /\ sample_queries = <<>>
    /\ begin = <<>> /\ perline = <<>> /\ end = <<>>
    /\ NoParse /\ NoProc /\ NoAwk
    /\ pc = "parse"

\* sys.exit(status), or the interpreter ending on an uncaught exception
Exit(status, what) ==
    /\ pc' = "exited"
    /\ exit_status' = status
    /\ report' = what

\* line 198: (begin, perline, end) = parse(vawk_string[0]); IndexError is not
\* an IOError, so lines 426-428 let it end the program with a traceback
ParseDsl ==
    /\ pc = "parse"
    /\ LET p == parse(vawk_string)
       IN  IF p.err
           THEN /\ Exit(1, "IndexError")
                /\ UNCHANGED <<begin, perline, end>>
           ELSE /\ begin' = p.begin /\ perline' = p.perline /\ end' = p.end
                /\ pc' = "info"
                /\ UNCHANGED <<exit_status, report>>
    /\ UNCHANGED <<raw, op_brace, a, b, begin_idx, end_idx, vawk_vars,
                   child, child_status, pending, printed, cmd, awk_vars>>

\* lines 208-237; the set is looped over in one order, whichever it is
InfoKeys ==
    /\ pc = "info"
    /\ \E keys \in Orders(FindRefs(perline, 1, "I", WordChars)) :
        /\ info_keys' = keys
        /\ perline' = WithInfo(perline, info_col, keys)
    /\ pc' = "samples"
    /\ UNCHANGED <<raw, begin, end, op_brace, a, b, begin_idx, end_idx,
                   vawk_string, header, info_col, samples_raw, sample_queries,
                   proc_vars, awk_vars>>

\* lines 241-253: Sample(s) exits with status 1 on a third "$" token
SampleQueries ==
    /\ pc = "samples"
    /\ LET found == FindRefs(perline, 1, "S", SampleChars)
       IN  /\ samples_raw' = found
           /\ IF \E s \in found : SampleInit(s).error
              THEN /\ Exit(1, "Error: format should be S$[ID]$[FMT]")
                   /\ UNCHANGED sample_queries
              ELSE /\ \E order \in Orders(found) :
                        sample_queries' =
                            [k \in 1..Len(order) |-> SampleClean(SampleInit(order[k]))]
                   /\ pc' = "prologues"
                   /\ UNCHANGED <<exit_status, report>>
    /\ UNCHANGED <<parse_vars, vawk_string, header, info_col, info_keys,
                   child, child_status, pending, printed, cmd, awk_vars>>

\* lines 256-319
SamplePrologues ==
    /\ pc = "prologues"
    /\ perline' = WithSamplePrologues(perline, sample_queries, info_col + 2)
    /\ pc' = "rename"
    /\ UNCHANGED <<raw, begin, end, op_brace, a, b, begin_idx, end_idx,
                   vawk_vars, proc_vars, awk_vars>>

\* lines 321-351
Rename ==
    /\ pc = "rename"
    /\ perline' = Renamed(perline, sample_queries)
    /\ pc' = "assemble"
    /\ UNCHANGED <<raw, begin, end, op_brace, a, b, begin_idx, end_idx,
                   vawk_vars, proc_vars, awk_vars>>

\* lines 353-400
Assemble ==
    /\ pc = "assemble"
    /\ perline' = Assembled(perline, info_keys, sample_queries, header, info_col)
    /\ cmd' = Program(begin, perline', end)
    /\ pc' = "spawn"
    /\ UNCHANGED <<raw, begin, end, op_brace, a, b, begin_idx, end_idx, vawk_vars,
                   child, child_status, pending, printed, exit_status, report, awk_vars>>

\* line 402: Popen(cmd, stdout=PIPE, stderr=STDOUT)
Spawn ==
    /\ pc = "spawn"
    /\ child' = "running"
    /\ pc' = "read"
    /\ UNCHANGED <<parse_vars, vawk_vars, child_status, pending, printed,
                   exit_status, report, cmd, awk_vars>>

\* line 402 with no gawk to run: OSError, errno 2, raised again at line 428
SpawnFails ==
    /\ pc = "spawn"
    /\ Exit(1, "OSError")
    /\ UNCHANGED <<parse_vars, vawk_vars, child, child_status, pending, printed,
                   cmd, awk_vars>>

\* the engine writes a line to the pipe
ChildWrite ==
    /\ child = "running"
    /\ pending + printed < MaxLines
    /\ pending' = pending + 1
    /\ UNCHANGED <<pc, parse_vars, vawk_vars, child, child_status, printed,
                   exit_status, report, cmd, awk_vars>>

\* the engine ends, closing its end of the pipe
ChildExit ==
    /\ child = "running"
    /\ child' = "exited"
    /\ child_status' \in ChildStatuses
    /\ UNCHANGED <<pc, parse_vars, vawk_vars, pending, printed,
                   exit_status, report, cmd, awk_vars>>

\* lines 404-405: one line read and printed
ReadLine ==
    /\ pc = "read"
    /\ pending > 0
    /\ pending' = pending - 1
    /\ printed' = printed + 1
    /\ UNCHANGED <<pc, parse_vars, vawk_vars, child, child_status,
                   exit_status, report, cmd, awk_vars>>

\* line 405 with the reader of stdout gone: IOError, errno 32, dropped at
\* lines 426-428, and the script ends
ReadLineBrokenPipe ==
    /\ pc = "read"
    /\ pending > 0
    /\ pending' = pending - 1
    /\ Exit(0, "EPIPE ignored")
    /\ UNCHANGED <<parse_vars, vawk_vars, child, child_status, printed, cmd, awk_vars>>

\* lines 404-407, 419, 425: readline returns b"" at end of stream, vawk and
\* main return None, and sys.exit(None) is status 0.  Nothing waits for the
\* child or reads its return code.
ReadEof ==
    /\ pc = "read"
    /\ pending = 0
    /\ child = "exited"
    /\ Exit(0, "none")
    /\ UNCHANGED <<parse_vars, vawk_vars, child, child_status, pending, printed,
                   cmd, awk_vars>>

Next ==
    \/ ParseDsl \/ InfoKeys \/ SampleQueries \/ SamplePrologues \/ Rename
    \/ Assemble \/ Spawn \/ SpawnFails \/ ChildWrite \/ ChildExit
    \/ ReadLine \/ ReadLineBrokenPipe \/ ReadEof

Spec == Init /\ [][Next]_vars

(***************************************************************************)
(* Statements about Spec.                                                  *)
(***************************************************************************)
\* the per-line text of the user, as parse returns it
UserPerline == parse(vawk_string).perline

\* t holds "I$" or "S$" where a reference can start: at the first character
\* or after a character that is not a word character
Unresolved(t) ==
    \E i \in 1..(Len(t) - 1) :
        /\ t[i] \in {"I", "S"}
        /\ t[i + 1] = "$"
        /\ (i = 1 \/ t[i - 1] \notin WordChars)

\* t holds a sample reference with more than one "$" after its sigil
HasMultiSeparatorRef(t) ==
    \E i \in 1..(Len(t) - 1) :
        /\ t[i] = "S"
        /\ t[i + 1] = "$"
        /\ (i = 1 \/ t[i - 1] \notin WordChars)
        /\ Len(PySplit(SubSeq(t, i + 2, RunEnd(t, i + 2, SampleChars) - 1), "$")) > 2

\* the generated variable of every reference found, info keys first
RefVars ==
    [k \in 1..Len(info_keys) |-> InfoVar(info_keys[k])]
    \o [k \in 1..Len(sample_queries) |-> VarName(sample_queries[k])]

(***************************************************************************)
(* C3: when the child engine was spawned and printing did not fail on a    *)
(* closed pipe, the program has read the child's output to the end and     *)
(* exits with the child's exit status.                                     *)
(***************************************************************************)
C3_ExitStatusPropagated ==
    (pc = "exited" /\ child /= "none" /\ report /= "EPIPE ignored") =>
        (child = "exited" /\ pending = 0 /\ exit_status = child_status)

(***************************************************************************)
(* C4: a per-line text with a sample reference of more than one subfield   *)
(* separator never gets the child engine spawned, and the run exits with   *)
(* a status other than zero.                                               *)
(***************************************************************************)
C4_InvalidSampleNeverRuns ==
    (~parse(vawk_string).err /\ HasMultiSeparatorRef(UserPerline)) =>
        /\ child = "none"
        /\ pc = "exited" => exit_status /= 0

(***************************************************************************)
(* C7: once the per-line text is assembled, no I$ or S$ reference of the   *)
(* user's text is left in it, wherever in the text it stood.               *)
(***************************************************************************)
C7_NoUnresolvedReference ==
    cmd /= <<>> => ~Unresolved(perline)

(***************************************************************************)
(* C10: the references found in one per-line text are bound to generated   *)
(* variables that differ from one another.                                 *)
(***************************************************************************)
C10_DistinctVariables ==
    \A i, j \in 1..Len(RefVars) : RefVars[i] = RefVars[j] => i = j

(***************************************************************************)
(* The engine running the generated per-line program.  An awk string is a  *)
(* sequence of characters, an awk array a function, a variable or element  *)
(* never assigned reads as the empty string, and a record is the sequence  *)
(* of its tab-separated fields (FS = OFS = "\t" from the BEGIN block).     *)
(***************************************************************************)
\* arr[k] of awk
AwkGet(arr, k) == IF k \in DOMAIN arr THEN arr[k] ELSE <<>>

\* arr[k] = v of awk
AwkSet(arr, k, v) == [w \in (DOMAIN arr) \cup {k} |-> IF w = k THEN v ELSE arr[w]]

\* split(s, arr, sep) of awk for a one-character sep: no element for ""
AwkSplit(s, sep) == IF s = <<>> THEN <<>> ELSE PySplit(s, sep)

\* $0: the fields joined by tabs
RECURSIVE JoinTab(_)
JoinTab(fields) ==
    IF fields = <<>> THEN <<>>
    ELSE IF Len(fields) = 1 THEN fields[1]
    ELSE fields[1] \o <<"\t">> \o JoinTab(Tail(fields))

\* $i: $0 for 0, the empty string past NF
Field(r, i) ==
    IF i = 0 THEN JoinTab(r)
    ELSE IF i \in 1..Len(r) THEN r[i]
    ELSE <<>>

\* $SAMPLE["name"]: a name never put in SAMPLE gives "", and $"" is $0
SampleIdx(S, name) == IF name \in DOMAIN S THEN S[name] ELSE 0

\* $0 ~ "^#" and $0 ~ "^##"
IsHashLine(r) == LET l == JoinTab(r) IN Len(l) >= 1 /\ l[1] = "#"
IsMetaLine(r) == LET l == JoinTab(r) IN Len(l) >= 2 /\ l[1] = "#" /\ l[2] = "#"

\* for (i=start;i<=NF;++i) SAMPLE[$i]=i, from column i on (lines 371-373)
RECURSIVE HeaderMap(_, _, _)
HeaderMap(S, r, i) ==
    IF i > Len(r) THEN S ELSE HeaderMap(AwkSet(S, r[i], i), r, i + 1)

\* the least i with fmt[i] == field, 0 when there is none: the loops
\* for(i=1;i<=length(fmt);++i) { if (fmt[i]=="field") { ...; break } }
FmtIndex(f, field) ==
    LET hits == {i \in 1..Len(f) : f[i] = field}
    IN  IF hits = {} THEN 0 ELSE CHOOSE i \in hits : \A j \in hits : i <= j

\* lines 261-275: the loop over COL and the last statement
RECURSIVE WholeLoop(_, _, _)
WholeLoop(acc, r, col) ==
    IF col <= Len(r) - 1 THEN WholeLoop(acc \o Field(r, col) \o <<"\t">>, r, col + 1)
    ELSE acc

ExecWholeWild(E, o, r, start_col) ==
    [E EXCEPT !.g = AwkSet(E.g, VarName(o),
                           WholeLoop(<<>>, r, start_col) \o Field(r, Len(r)))]

\* lines 279-285
ExecWholeNamed(E, o, r, S) ==
    [E EXCEPT !.g = AwkSet(E.g, VarName(o), Field(r, SampleIdx(S, o.name_raw)))]

\* lines 291-307: fmt_key keeps its value when no fmt[i] is the field
RECURSIVE SubLoop(_, _, _, _)
SubLoop(acc, r, col, key) ==
    IF col <= Len(r) - 1
    THEN SubLoop(acc \o AwkGet(AwkSplit(Field(r, col), ":"), key) \o <<"\t">>, r, col + 1, key)
    ELSE acc

ExecSubWild(E, o, r, f, start_col) ==
    LET i    == FmtIndex(f, o.field)
        key  == IF i = 0 THEN E.fmt_key ELSE i
        last == AwkSplit(Field(r, Len(r)), ":")
    IN  [g |-> AwkSet(E.g, VarName(o), SubLoop(<<>>, r, start_col, key) \o AwkGet(last, key)),
         fmt_key |-> key,
         samp |-> last]

\* lines 310-318
ExecSubNamed(E, o, r, f, S) ==
    LET sp == AwkSplit(Field(r, SampleIdx(S, o.name_raw)), ":")
        i  == FmtIndex(f, o.field)
    IN  [E EXCEPT !.samp = sp,
                  !.g = IF i = 0 THEN E.g ELSE AwkSet(E.g, VarName(o), AwkGet(sp, i))]

\* lines 256-319: the prologue of one query
ExecSamplePrologue(E, o, r, f, S, start_col) ==
    IF o.field = ALL THEN
        IF o.name_clean = <<"*">> THEN ExecWholeWild(E, o, r, start_col)
        ELSE ExecWholeNamed(E, o, r, S)
    ELSE
        IF o.name_clean = <<"*">> THEN ExecSubWild(E, o, r, f, start_col)
        ELSE ExecSubNamed(E, o, r, f, S)

\* the prologues in the order of the text: the last query's stands first
RECURSIVE ExecSamplePrologues(_, _, _, _, _, _)
ExecSamplePrologues(E, qs, r, f, S, start_col) ==
    IF qs = <<>> THEN E
    ELSE ExecSamplePrologues(
            ExecSamplePrologue(E, qs[Len(qs)], r, f, S, start_col),
            SubSeq(qs, 1, Len(qs) - 1), r, f, S, start_col)

\* lines 220-228 for one entry x[i]: each key's if statement in turn
RECURSIVE ExecInfoEntry(_, _, _)
ExecInfoEntry(g, entry, keys) ==
    IF keys = <<>> THEN g
    ELSE LET k    == Head(keys)
             info == AwkSplit(entry, "=")
             hit  == HasAt(entry, k \o <<"=">>, 0) \/ entry = k
             g1   == IF ~hit THEN g
                     ELSE IF Len(info) = 1 THEN AwkSet(g, InfoVar(k), <<"1">>)
                     ELSE AwkSet(g, InfoVar(k), AwkGet(info, 2))
         IN  ExecInfoEntry(g1, entry, Tail(keys))

\* lines 214-233: split($info_col,x,";"); for (i=1;i<=length(x);++i) { ... }
RECURSIVE ExecInfoLoop(_, _, _)
ExecInfoLoop(g, x, keys) ==
    IF x = <<>> THEN g
    ELSE ExecInfoLoop(ExecInfoEntry(g, Head(x), keys), Tail(x), keys)

\* lines 354-363: the assignments of "" in the order of names
RECURSIVE ExecResets(_, _)
ExecResets(g, names) ==
    IF names = <<>> THEN g
    ELSE ExecResets(AwkSet(g, Head(names), <<>>), Tail(names))

\* the variables reset, in the order of the text: each reset is put in front
\* of the ones before it, the INFO_ ones first, and "*" queries get none
RECURSIVE NamedOnly(_)
NamedOnly(qs) ==
    IF qs = <<>> THEN <<>>
    ELSE (IF Head(qs).name_clean /= <<"*">> THEN <<Head(qs)>> ELSE <<>>) \o NamedOnly(Tail(qs))

ResetNames(keys, qs) ==
    LET named == NamedOnly(qs)
    IN  [k \in 1..Len(named) |-> VarName(named[Len(named) + 1 - k])]
        \o [k \in 1..Len(keys) |-> InfoVar(keys[Len(keys) + 1 - k])]

\* the else branch of the header dispatch, up to the user's text: the FORMAT
\* split, the resets, the sample prologues, the INFO prologue
ExecPerline(E, r, S, keys, qs, col, has_info) ==
    LET f  == AwkSplit(Field(r, col + 1), ":")
        E0 == [E EXCEPT !.g = ExecResets(E.g, ResetNames(keys, qs))]
        E1 == ExecSamplePrologues(E0, qs, r, f, S, col + 2)
    IN  IF has_info
        THEN [E1 EXCEPT !.g = ExecInfoLoop(E1.g, AwkSplit(Field(r, col), ";"), keys)]
        ELSE E1

(***************************************************************************)
(* SpecAwk: vawk() on a few scripts that print references, then the engine *)
(* running the generated program on input lines, one line per step.        *)
(***************************************************************************)
MaxSamples == 2

\* {print ref,ref}: "print " is one piece of awk text, not a reference
AwkScripts ==
    { <<"{", "print ">> \o <<"I", "$", "A">> \o <<",">> \o <<"I", "$", "B">> \o <<"}">>,
      <<"{", "print ">> \o <<"S", "$", "N", "-", "1">> \o <<",">> \o <<"S", "$", "N", "_", "1">> \o <<"}">>,
      <<"{", "print ">> \o <<"S", "$", "*">> \o <<",">> \o <<"S", "$", "*", "$", "D">> \o <<"}">>,
      <<"{", "print ">> \o <<"S", "$", "*", "$", "D">> \o <<",">> \o <<"S", "$", "*", "$", "G">> \o <<"}">>,
      <<"{", "print ">> \o <<"S", "$", "N", "_", "1", "$", "D">> \o <<",">> \o <<"S", "$", "N", "-", "1">> \o <<"}">>,
      <<"{", "print ">> \o <<"S", "$", "N", "$", "1", "_", "D">> \o <<",">> \o <<"S", "$", "N", "_", "1", "$", "D">> \o <<"}">> }

\* sample names of header lines
HeaderNames == { <<"N", "-", "1">>, <<"N", "_", "1">> }

\* texts of the annotation column, the FORMAT column and a sample column
InfoTexts == { <<"x">>, <<"A", "=", "1">>, <<"B", ";", "A", "=", "2">> }
FormatTexts == { <<"G", ":", "D">>, <<"D">>, <<"G", ":", "E">> }
SampleTexts == { <<"1", ":", "2">>, <<"3">> }

\* the sequences over S of length at most n
UpTo(S, n) == UNION {[1..k -> S] : k \in 0..n}

\* a meta line, the header lines and the data lines of a file whose
\* annotation column is column col; a data line may end at the annotation
\* column (no genotypes) or have a FORMAT column and any number of samples
MetaLine == << <<"#", "#", "m">> >>

HeaderLines(col) ==
    { [k \in 1..(col + 1) |-> IF k = 1 THEN <<"#", "h">> ELSE <<"h">>] \o names :
        names \in UpTo(HeaderNames, MaxSamples) }

DataLines(col) ==
    LET lead == [k \in 1..(col - 1) |-> <<"c">>]
    IN  { lead \o <<i>> : i \in InfoTexts }
        \cup { lead \o << <<"x">>, f >> \o s :
                 f \in FormatTexts, s \in UpTo(SampleTexts, MaxSamples) }

InputLines(col) == {MetaLine} \cup HeaderLines(col) \cup DataLines(col)

InitAwk ==
    /\ vawk_string \in AwkScripts
    /\ header \in BOOLEAN
    /\ info_col = DefaultInfoCol
    /\ info_keys = <<>> /\ samples_raw = {} /\ sample_queries = <<>>
    /\ begin = <<>> /\ perline = <<>> /\ end = <<>>
    /\ NoParse /\ NoProc /\ NoAwk
    /\ pc = "parse"

\* the generated program on one input line: the header dispatch of lines
\* 368-384, and in its else branch the per-line text of lines 214-366
AwkRecord ==
    /\ pc = "read"
    /\ child = "running"
    /\ LET prologue == HasSigil(UserPerline, "I")
           env == [g |-> gvars, fmt_key |-> fmt_key, samp |-> samp]
       IN  \E line \in InputLines(info_col) :
            /\ rec' = line
            /\ IF IsHashLine(line)
               THEN /\ SAMPLE' = IF IsMetaLine(line) THEN SAMPLE
                                 ELSE HeaderMap(SAMPLE, line, info_col + 2)
                    /\ out' = IF header THEN <<JoinTab(line)>> ELSE <<>>
                    /\ body_ran' = FALSE
                    /\ UNCHANGED <<fmt, fmt_key, samp, gvars>>
               ELSE LET E == ExecPerline(env, line, SAMPLE, info_keys, sample_queries,
                                         info_col, prologue)
                    IN  /\ fmt' = AwkSplit(Field(line, info_col + 1), ":")
                        /\ gvars' = E.g
                        /\ fmt_key' = E.fmt_key
                        /\ samp' = E.samp
                        /\ out' = <<>>
                        /\ body_ran' = TRUE
                        /\ UNCHANGED SAMPLE
    /\ UNCHANGED <<pc, parse_vars, vawk_vars, proc_vars>>

NextAwk ==
    \/ ParseDsl \/ InfoKeys \/ SampleQueries \/ SamplePrologues \/ Rename
    \/ Assemble \/ Spawn \/ AwkRecord

SpecAwk == InitAwk /\ [][NextAwk]_vars

(***************************************************************************)
(* Statements about SpecAwk.  They are about the record the engine has     *)
(* just run the per-line body on (body_ran), or the header line it has     *)
(* just read, and read the input columns straight from rec.                *)
(***************************************************************************)
\* the entries of the annotation column and the keys of the FORMAT column
Annotations(r) == IF info_col <= Len(r) THEN AwkSplit(r[info_col], ";") ELSE <<>>
FormatKeys(r)  == IF info_col + 1 <= Len(r) THEN AwkSplit(r[info_col + 1], ":") ELSE <<>>

\* the sample columns: the ones after the FORMAT column
SampleColumns(r) == SubSeq(r, info_col + 2, Len(r))

Range(f) == {f[i] : i \in DOMAIN f}

\* the annotation column has the key, as a flag or with a value
HasAnnotation(r, k) ==
    \E e \in Range(Annotations(r)) : e = k \/ HasAt(e, k \o <<"=">>, 0)

\* the subfield of position p of a sample column's text, "" when it has none
SubfieldAt(text, p) ==
    LET parts == AwkSplit(text, ":") IN IF p \in DOMAIN parts THEN parts[p] ELSE <<>>

IsWildcard(o) == o.name_clean = <<"*">>
IsWhole(o)    == o.field = ALL

\* no other query of the program is renamed to o's variable
OwnVariable(o) ==
    \A k \in 1..Len(sample_queries) :
        VarName(sample_queries[k]) = VarName(o) => sample_queries[k] = o

\* the value the body finds in a generated variable
Bound(v) == AwkGet(gvars, v)

(***************************************************************************)
(* C1: when the body runs on a record, the variable of every I$KEY whose   *)
(* key the record's annotation column lacks, and of every named            *)
(* S$NAME$FIELD whose subfield the record's FORMAT column lacks, is the    *)
(* empty string, whatever earlier records held.                            *)
(***************************************************************************)
C1_AbsentIsEmpty ==
    body_ran =>
        /\ \A k \in 1..Len(info_keys) :
              ~HasAnnotation(rec, info_keys[k]) => Bound(InfoVar(info_keys[k])) = <<>>
        /\ \A k \in 1..Len(sample_queries) :
              LET o == sample_queries[k]
              IN  (~IsWildcard(o) /\ ~IsWhole(o) /\ o.field \notin Range(FormatKeys(rec)))
                    => Bound(VarName(o)) = <<>>

(***************************************************************************)
(* C2: when the body runs on a record whose FORMAT column lacks the        *)
(* subfield of a sample reference, the reference's value holds no subfield *)
(* text: a position found for an earlier record or for another subfield    *)
(* is not used again.  For S$*$FIELD the value is then one empty string    *)
(* per sample column, joined by tabs.  Stated for the references that have *)
(* a variable of their own and the records that have sample columns.       *)
(***************************************************************************)
C2_NoStalePosition ==
    body_ran =>
        \A k \in 1..Len(sample_queries) :
            LET o == sample_queries[k]
            IN  ( /\ ~IsWhole(o)
                  /\ OwnVariable(o)
                  /\ SampleColumns(rec) /= <<>>
                  /\ o.field \notin Range(FormatKeys(rec)) )
                => Bound(VarName(o)) =
                       IF IsWildcard(o)
                       THEN JoinTab([c \in 1..Len(SampleColumns(rec)) |-> <<>>])
                       ELSE <<>>

(***************************************************************************)
(* C8: when the body runs on a record, S$* is the raw text of the sample   *)
(* columns (the columns after the FORMAT column) joined by tabs, and       *)
(* S$*$FIELD, for a subfield the FORMAT column has, is the subfield's      *)
(* value of every sample column joined by tabs, in column order.           *)
(***************************************************************************)
C8_WildcardJoinsSampleColumns ==
    body_ran =>
        \A k \in 1..Len(sample_queries) :
            LET o == sample_queries[k]
                p == FmtIndex(FormatKeys(rec), o.field)
                s == SampleColumns(rec)
            IN  /\ (IsWildcard(o) /\ IsWhole(o)) => Bound(VarName(o)) = JoinTab(s)
                /\ (IsWildcard(o) /\ ~IsWhole(o) /\ p /= 0) =>
                      Bound(VarName(o)) = JoinTab([c \in 1..Len(s) |-> SubfieldAt(s[c], p)])

(***************************************************************************)
(* C9: with header echo on, a header line is printed as it is and the body *)
(* does not run on it; after it every sample name of the line maps to a    *)
(* column of the line that holds the name; and on a data record every      *)
(* S$NAME whose name is mapped is the raw text of the mapped column.       *)
(***************************************************************************)
C9_HeaderEchoAndNameMap ==
    header =>
        /\ (rec /= <<>> /\ IsHashLine(rec)) =>
              /\ out = <<JoinTab(rec)>>
              /\ ~body_ran
        /\ (rec /= <<>> /\ IsHashLine(rec) /\ ~IsMetaLine(rec)) =>
              \A c \in (info_col + 2)..Len(rec) :
                  /\ rec[c] \in DOMAIN SAMPLE
                  /\ SAMPLE[rec[c]] \in (info_col + 2)..Len(rec)
                  /\ rec[SAMPLE[rec[c]]] = rec[c]
        /\ body_ran =>
              \A k \in 1..Len(sample_queries) :
                  LET o == sample_queries[k]
                  IN  (~IsWildcard(o) /\ IsWhole(o) /\ o.name_raw \in DOMAIN SAMPLE) =>
                        Bound(VarName(o)) = Field(rec, SAMPLE[o.name_raw])

=============================================================================
